---- MODULE Spec2Model ----
(***************************************************************************)
(* Model of src/R1.py: the conversion job engine of gm-convert-gui.        *)
(*                                                                         *)
(*  - EnhancedConvertWorker (R1.py:14-62): the batch executor.  Its run()  *)
(*    is executed on a QThread; every statement of run() that emits a      *)
(*    signal, reads the stop flag or waits for the external tool is one    *)
(*    step of the model (field pc of the worker's record).                 *)
(*  - ImprovedGMConvertGUI (R1.py:64-416): the handlers of the             *)
(*    presentation thread.  Each handler is one atomic action: the GUI     *)
(*    thread runs a slot to completion before it takes the next event.     *)
(*  - Signals of the worker are connected to slots of the GUI object that  *)
(*    lives in another thread, so Qt queues them: variable queue is that   *)
(*    FIFO, Deliver takes its head.                                        *)
(*  - Widgets that only display (log browser, progress bar, status label,  *)
(*    file list and counter) are not part of the state.                    *)
(***************************************************************************)
EXTENDS Integers, Sequences, FiniteSets, TLC

\* Bounds of the model.
MaxFiles == 3   \* at most this many distinct input files can be selected
MaxRuns == 2    \* at most this many workers are created

Files == 1..MaxFiles
Runs == 1..MaxRuns

VARIABLES
    gm_installed,     \* outcome of the presence check made by check_gm_installed
    has_input_files,  \* whether attribute self.input_files exists yet
    input_files,      \* self.input_files
    output_dir,       \* self.output_dir.text(): "" or a directory
    btn_convert,      \* self.btn_convert.isEnabled()
    btn_cancel,       \* self.btn_cancel.isEnabled()
    dialog,           \* the last message box shown
    worker,           \* self.worker: 0 is None, else the id of the newest worker
    workers,          \* the EnhancedConvertWorker objects, by id
    queue,            \* signals emitted by workers and not yet delivered to the GUI
    crashed           \* an exception escaped a slot: PyQt aborts the process

\* The state of a run of build_commands that is followed step by step.
VARIABLES
    b_files,      \* self.input_files of the request being built
    b_opts,       \* the option widgets, read by build_commands
    b_pc,         \* "idle", "loop" (in the for loop of line 310), "returned", "raised"
    b_commands,   \* the local list commands
    b_dirs        \* the directories that exist in the file system

builder_vars == <<b_files, b_opts, b_pc, b_commands, b_dirs>>

main_vars == <<gm_installed, has_input_files, input_files, output_dir, btn_convert,
               btn_cancel, dialog, worker, workers, queue, crashed>>

gui_vars == <<gm_installed, has_input_files, input_files, output_dir, btn_convert,
              btn_cancel, dialog, worker, crashed, builder_vars>>

-----------------------------------------------------------------------------
\* Messages and events

NoMsg == [type |-> "none", dst |-> 0]

\* error_msg = f"Failed to process {cmd_parts[-1]}"
FailedMsg(cmd) == [type |-> "failed", dst |-> cmd.dst]

\* error_msg = str(e)
ExceptionMsg == [type |-> "exception", dst |-> 0]

Event(r, kind, tag, idx, path, ok, msg) ==
    [run |-> r, kind |-> kind, tag |-> tag, idx |-> idx, path |-> path,
     ok |-> ok, msg |-> msg]

\* self.current_file.emit(cmd_parts[-1])
EvCurrentFile(r, cmd) == Event(r, "current_file", "", 0, cmd.dst, TRUE, NoMsg)

\* self.output_received.emit(...): tag tells which of the four texts it is
EvOutput(r, tag, idx) == Event(r, "output_received", tag, idx, 0, TRUE, NoMsg)

\* self.progress_incremented.emit()
EvProgress(r) == Event(r, "progress_incremented", "", 0, 0, TRUE, NoMsg)

\* self.finished.emit(success, error_msg)
EvFinished(r, success, error_msg) == Event(r, "finished", "", 0, 0, success, error_msg)

-----------------------------------------------------------------------------
\* Command builder, as far as the executor depends on it: one command per
\* input file, in order; the last argument of a command is its destination.

OutputFile(f) == f

Command(f) == [src |-> f, dst |-> OutputFile(f)]

build_commands(files) == [i \in 1..Len(files) |-> Command(files[i])]

-----------------------------------------------------------------------------
\* The worker objects

\* stop_mark: whether stop() was called and, if so, how many invocations had
\* been started and had returned and how many stop-flag checks had been made.
NoStop == [set |-> FALSE, started |-> 0, returned |-> 0, checks |-> 0]

NoWorker ==
    [pc |-> "none", commands |-> <<>>, idx |-> 0, is_running |-> FALSE,
     success |-> TRUE, error_msg |-> NoMsg,
     emitted |-> <<>>, started |-> <<>>, results |-> <<>>,
     checks |-> 0, cancel_at |-> -1, stop_mark |-> NoStop, raised |-> ""]

\* EnhancedConvertWorker(commands, output_dir); thread.start() has been called
\* and run() has not begun.  The fields after error_msg record the history of
\* the run: the signals emitted, the invocations started (with the number of
\* the stop-flag check that let each through) and returned, the number of
\* stop-flag checks made, the length of emitted when a check found the flag
\* cleared (-1: none did), stop_mark, and where an exception other than
\* CalledProcessError was raised ("": nowhere).
NewWorker(commands) ==
    [NoWorker EXCEPT !.pc = "created", !.commands = commands, !.is_running = TRUE]


\* self.worker.deleteLater(), line 370: the finished worker object is gone.
deleteLater(w) == [NoWorker EXCEPT !.pc = "deleted"]

\* def stop(self): self._is_running = False.  stop_mark remembers where the
\* run was when the flag was first cleared.
stop(w) ==
    [w EXCEPT !.is_running = FALSE,
              !.stop_mark = IF @.set THEN @
                            ELSE [set |-> TRUE,
                                  started |-> Len(w.started),
                                  returned |-> Len(w.results),
                                  checks |-> w.checks]]

\* A signal emitted by worker r: recorded in the run's history and queued for
\* the GUI thread.
Emit(r, w, ev) ==
    /\ workers' = [workers EXCEPT ![r] = [w EXCEPT !.emitted = Append(@, ev)]]
    /\ queue' = Append(queue, ev)

\* Variant of RunBegin that sets the running flag when run() begins instead of
\* in __init__.
RunBegin_setsFlag(r) ==
    /\ ~crashed
    /\ workers[r].pc = "created"
    /\ \E mkdir_ok \in BOOLEAN :
         workers' = [workers EXCEPT ![r] =
                       [@ EXCEPT !.pc = IF mkdir_ok THEN "loop" ELSE "except",
                                 !.raised = IF mkdir_ok THEN "" ELSE "mkdir",
                                 !.idx = 1,
                                 !.is_running = TRUE,
                                 !.success = TRUE,
                                 !.error_msg = NoMsg]]
    /\ UNCHANGED <<queue, gui_vars>>

\* run(), lines 27-31: success = True; error_msg = ""; the output directory is
\* created, which the file system may refuse (the exception is caught at 54).
RunBegin(r) ==
    /\ ~crashed
    /\ workers[r].pc = "created"
    /\ \E mkdir_ok \in BOOLEAN :
         workers' = [workers EXCEPT ![r] =
                       [@ EXCEPT !.pc = IF mkdir_ok THEN "loop" ELSE "except",
                                 !.raised = IF mkdir_ok THEN "" ELSE "mkdir",
                                 !.idx = 1,
                                 !.success = TRUE,
                                 !.error_msg = NoMsg]]
    /\ UNCHANGED <<queue, gui_vars>>

\* Variant of LoopHead that raises on a cleared stop flag instead of breaking.
LoopHead_raiseOnStop(r) ==
    /\ ~crashed
    /\ workers[r].pc = "loop"
    /\ LET w == workers[r] IN
         workers' = [workers EXCEPT ![r] =
            IF w.idx > Len(w.commands)
              THEN [w EXCEPT !.pc = "finally"]
            ELSE IF ~w.is_running
              THEN [w EXCEPT !.pc = "except", !.checks = @ + 1,
                             !.cancel_at = Len(w.emitted)]
            ELSE [w EXCEPT !.pc = "emit_current", !.checks = @ + 1]]
    /\ UNCHANGED <<queue, gui_vars>>

\* Variant of LoopHead without the stop-flag check of lines 33-34.
LoopHead_noCheck(r) ==
    /\ ~crashed
    /\ workers[r].pc = "loop"
    /\ LET w == workers[r] IN
         workers' = [workers EXCEPT ![r] =
            IF w.idx > Len(w.commands)
              THEN [w EXCEPT !.pc = "finally"]
              ELSE [w EXCEPT !.pc = "emit_current", !.checks = @ + 1]]
    /\ UNCHANGED <<queue, gui_vars>>

\* Lines 32-34: the head of the for loop.  The loop ends when the commands are
\* exhausted; otherwise the stop flag is read and a cleared flag breaks.
LoopHead(r) ==
    /\ ~crashed
    /\ workers[r].pc = "loop"
    /\ LET w == workers[r] IN
         workers' = [workers EXCEPT ![r] =
            IF w.idx > Len(w.commands)
              THEN [w EXCEPT !.pc = "finally"]
            ELSE IF ~w.is_running
              THEN [w EXCEPT !.pc = "finally", !.checks = @ + 1,
                             !.cancel_at = Len(w.emitted)]
            ELSE [w EXCEPT !.pc = "emit_current", !.checks = @ + 1]]
    /\ UNCHANGED <<queue, gui_vars>>

\* Line 35: self.current_file.emit(cmd_parts[-1])
EmitCurrent(r) ==
    /\ ~crashed
    /\ workers[r].pc = "emit_current"
    /\ LET w == workers[r] IN
         Emit(r, [w EXCEPT !.pc = "emit_exec"], EvCurrentFile(r, w.commands[w.idx]))
    /\ UNCHANGED gui_vars

\* Line 36: self.output_received.emit("[idx+1/total] Executing: ...")
EmitExec(r) ==
    /\ ~crashed
    /\ workers[r].pc = "emit_exec"
    /\ LET w == workers[r] IN
         Emit(r, [w EXCEPT !.pc = "spawn"], EvOutput(r, "exec", w.idx))
    /\ UNCHANGED gui_vars

\* Variant of InvokeStart that does not wait for the external tool (Popen
\* instead of run): the worker goes on as after a successful return.
InvokeStart_noWait(r) ==
    /\ ~crashed
    /\ workers[r].pc = "spawn"
    /\ LET w == workers[r] IN
         workers' = [workers EXCEPT ![r] =
            [w EXCEPT !.pc = "emit_stdout",
                      !.started = Append(@, [idx |-> w.idx, check |-> w.checks])]]
    /\ UNCHANGED <<queue, gui_vars>>

\* Lines 39-45, first half: subprocess.run starts the external tool.  Starting
\* it can raise (OSError: the executable is gone), which line 54 catches.
InvokeStart(r) ==
    /\ ~crashed
    /\ workers[r].pc = "spawn"
    /\ LET w == workers[r] IN
         \E spawned \in BOOLEAN :
           workers' = [workers EXCEPT ![r] =
              IF spawned
                THEN [w EXCEPT !.pc = "running",
                               !.started = Append(@, [idx |-> w.idx, check |-> w.checks])]
                ELSE [w EXCEPT !.pc = "except", !.raised = "spawn"]]
    /\ UNCHANGED <<queue, gui_vars>>

Outcomes == {"ok", "nonzero", "exception"}

\* Variant of AfterInvoke that skips the log of line 46 after a success.
AfterInvoke_noLog(outcome) ==
    CASE outcome = "ok" -> "emit_progress"
      [] outcome = "nonzero" -> "emit_error"
      [] OTHER -> "except"

\* Variant of AfterInvoke without check=True: a non-zero exit status is
\* handled as a success.
AfterInvoke_uncheckedExit(outcome) ==
    CASE outcome \in {"ok", "nonzero"} -> "emit_stdout"
      [] OTHER -> "except"

\* Where run() continues after subprocess.run: line 46 on exit status 0, line 47
\* on CalledProcessError, line 54 on any other exception (e.g. undecodable
\* output with text=True).
AfterInvoke(outcome) ==
    CASE outcome = "ok" -> "emit_stdout"
      [] outcome = "nonzero" -> "emit_error"
      [] OTHER -> "except"

\* Lines 39-45, second half: the blocking wait for the external tool ends.
InvokeReturn(r) ==
    /\ ~crashed
    /\ workers[r].pc = "running"
    /\ LET w == workers[r] IN
         \E outcome \in Outcomes :
           workers' = [workers EXCEPT ![r] =
              [w EXCEPT !.pc = AfterInvoke(outcome),
                        !.raised = IF outcome = "exception" THEN "invoke" ELSE "",
                        !.results = Append(@, [idx |-> w.idx, outcome |-> outcome])]]
    /\ UNCHANGED <<queue, gui_vars>>

\* Line 46: self.output_received.emit(process.stdout)
EmitStdout(r) ==
    /\ ~crashed
    /\ workers[r].pc = "emit_stdout"
    /\ LET w == workers[r] IN
         Emit(r, [w EXCEPT !.pc = "emit_progress"], EvOutput(r, "stdout", w.idx))
    /\ UNCHANGED gui_vars

\* Line 53: self.progress_incremented.emit(); the loop advances.
EmitProgress(r) ==
    /\ ~crashed
    /\ workers[r].pc = "emit_progress"
    /\ LET w == workers[r] IN
         Emit(r, [w EXCEPT !.pc = "loop", !.idx = @ + 1], EvProgress(r))
    /\ UNCHANGED gui_vars

\* Variant of EmitError without the break of line 51: the loop goes on with
\* the next item.
EmitError_noBreak(r) ==
    /\ ~crashed
    /\ workers[r].pc = "emit_error"
    /\ LET w == workers[r] IN
         Emit(r, [w EXCEPT !.pc = "loop", !.idx = @ + 1, !.success = FALSE,
                           !.error_msg = FailedMsg(w.commands[w.idx])],
              EvOutput(r, "error", w.idx))
    /\ UNCHANGED gui_vars

\* Lines 47-51: except CalledProcessError: emit "Error: ...", success = False,
\* error_msg = "Failed to process <destination>", break.
EmitError(r) ==
    /\ ~crashed
    /\ workers[r].pc = "emit_error"
    /\ LET w == workers[r] IN
         Emit(r, [w EXCEPT !.pc = "finally", !.success = FALSE,
                           !.error_msg = FailedMsg(w.commands[w.idx])],
              EvOutput(r, "error", w.idx))
    /\ UNCHANGED gui_vars

\* Variant of ExceptHandler that does not set success to False.
ExceptHandler_keepsSuccess(r) ==
    /\ ~crashed
    /\ workers[r].pc = "except"
    /\ LET w == workers[r] IN
         Emit(r, [w EXCEPT !.pc = "finally", !.error_msg = ExceptionMsg],
              EvOutput(r, "critical", 0))
    /\ UNCHANGED gui_vars

\* Lines 54-57: except Exception: error_msg = str(e); success = False;
\* emit "Critical Error: ...".
ExceptHandler(r) ==
    /\ ~crashed
    /\ workers[r].pc = "except"
    /\ LET w == workers[r] IN
         Emit(r, [w EXCEPT !.pc = "finally", !.success = FALSE,
                           !.error_msg = ExceptionMsg],
              EvOutput(r, "critical", 0))
    /\ UNCHANGED gui_vars

\* Variant of Finally that emits nothing when the run was cancelled.
Finally_silentOnCancel(r) ==
    /\ ~crashed
    /\ workers[r].pc = "finally"
    /\ LET w == workers[r] IN
         IF w.cancel_at >= 0
           THEN /\ workers' = [workers EXCEPT ![r].pc = "done"]
                /\ UNCHANGED queue
           ELSE Emit(r, [w EXCEPT !.pc = "done"], EvFinished(r, w.success, w.error_msg))
    /\ UNCHANGED gui_vars

\* Lines 58-59: finally: self.finished.emit(success, error_msg); run() returns.
Finally(r) ==
    /\ ~crashed
    /\ workers[r].pc = "finally"
    /\ LET w == workers[r] IN
         Emit(r, [w EXCEPT !.pc = "done"], EvFinished(r, w.success, w.error_msg))
    /\ UNCHANGED gui_vars

WorkerStep(r) ==
    \/ RunBegin(r)
    \/ LoopHead(r)
    \/ EmitCurrent(r)
    \/ EmitExec(r)
    \/ InvokeStart(r)
    \/ InvokeReturn(r)
    \/ EmitStdout(r)
    \/ EmitProgress(r)
    \/ EmitError(r)
    \/ ExceptHandler(r)
    \/ Finally(r)

-----------------------------------------------------------------------------
\* The presentation thread

\* What the user can select: a list of n distinct files, n up to MaxFiles
\* (listed from the highest file id down, so that a file's id differs from its
\* position in the list).
Selection(n) == [i \in 1..n |-> n + 1 - i]

Selections == {Selection(n) : n \in 0..MaxFiles}

OutDir == "/out"

\* Variant of check_gm_installed that leaves the start button enabled.
check_gm_installed_ignored(found) == TRUE

\* check_gm_installed, lines 404-416: whether the start button stays enabled
\* after the presence check (a QPushButton is enabled when created, line 214).
check_gm_installed(found) == IF found THEN TRUE ELSE FALSE

\* validate_settings, lines 289-302: "ok" for True, else the warning shown.
validate_settings(writable) ==
    IF input_files = <<>> THEN "Please select input files!"
    ELSE IF output_dir = "" THEN "Please select output directory!"
    ELSE IF ~writable THEN "Output directory is not writable"
    ELSE "ok"

\* browse_files, lines 262-269: a non-empty selection replaces the list.
browse_files ==
    /\ ~crashed
    /\ \E files \in Selections \ {<<>>} :
         /\ input_files' = files
         /\ has_input_files' = TRUE
    /\ UNCHANGED <<builder_vars, gm_installed, output_dir, btn_convert, btn_cancel, dialog, worker, workers, queue, crashed>>

\* dropEvent, lines 256-260: the dropped files with a recognised extension
\* replace the list, also when none is left.
dropEvent ==
    /\ ~crashed
    /\ \E files \in Selections :
         /\ input_files' = files
         /\ has_input_files' = TRUE
    /\ UNCHANGED <<builder_vars, gm_installed, output_dir, btn_convert, btn_cancel, dialog, worker, workers, queue, crashed>>

\* clear_files, lines 279-282
clear_files ==
    /\ ~crashed
    /\ input_files' = <<>>
    /\ has_input_files' = TRUE
    /\ UNCHANGED <<builder_vars, gm_installed, output_dir, btn_convert, btn_cancel, dialog, worker, workers, queue, crashed>>

\* browse_output_dir, lines 284-287, and typing into the QLineEdit (line 133),
\* which can also empty it.
browse_output_dir ==
    /\ ~crashed
    /\ \E d \in {"", OutDir} :
         /\ d # output_dir
         /\ output_dir' = d
    /\ UNCHANGED <<builder_vars, gm_installed, has_input_files, input_files, btn_convert, btn_cancel,
                   dialog, worker, workers, queue, crashed>>

\* start_conversion reads self.input_files (line 290) before any handler has
\* created the attribute: AttributeError escapes the slot.
StartAttributeError ==
    /\ ~has_input_files
    /\ crashed' = TRUE
    /\ UNCHANGED <<builder_vars, gm_installed, has_input_files, input_files, output_dir, btn_convert,
                   btn_cancel, dialog, worker, workers,
                   queue>>

\* Lines 354-355: validate_settings shows a warning and start_conversion returns.
StartRejected ==
    /\ has_input_files
    /\ \E writable \in BOOLEAN :
         /\ validate_settings(writable) # "ok"
         /\ dialog' = validate_settings(writable)
    /\ UNCHANGED <<builder_vars, gm_installed, has_input_files, input_files, output_dir, btn_convert,
                   btn_cancel, worker, workers, queue,
                   crashed>>

\* Line 357 with line 317: a destination directory cannot be created, the
\* exception escapes build_commands and the slot.
StartBuildFails ==
    /\ has_input_files
    /\ validate_settings(TRUE) = "ok"
    /\ crashed' = TRUE
    /\ UNCHANGED <<builder_vars, gm_installed, has_input_files, input_files, output_dir, btn_convert,
                   btn_cancel, dialog, worker, workers,
                   queue>>

\* Lines 357-377: the commands are built, the buttons switched, the progress
\* bar reset, a worker created on a new thread and the thread started.
StartRun ==
    /\ has_input_files
    /\ validate_settings(TRUE) = "ok"
    /\ worker < MaxRuns
    /\ LET commands == build_commands(input_files) IN
         /\ btn_convert' = FALSE
         /\ btn_cancel' = TRUE
         /\ worker' = worker + 1
         /\ workers' = [workers EXCEPT ![worker + 1] = NewWorker(commands)]
    /\ UNCHANGED <<builder_vars, gm_installed, has_input_files, input_files, output_dir, dialog,
                   queue, crashed>>

\* start_conversion, lines 353-377, run by a click on the enabled start button
\* (line 215).
start_conversion ==
    /\ ~crashed
    /\ btn_convert
    /\ \/ StartAttributeError
       \/ StartRejected
       \/ StartBuildFails
       \/ StartRun

\* Variant of cancel_conversion that enables the start button again.
cancel_conversion_reenables ==
    /\ ~crashed
    /\ btn_cancel
    /\ workers' = IF worker # 0
                    THEN [workers EXCEPT ![worker] = stop(@)]
                    ELSE workers
    /\ btn_cancel' = FALSE
    /\ btn_convert' = TRUE
    /\ UNCHANGED <<builder_vars, gm_installed, has_input_files, input_files, output_dir,
                   dialog, worker, queue, crashed>>

\* cancel_conversion, lines 379-385, run by a click on the enabled cancel
\* button (line 217).
cancel_conversion ==
    /\ ~crashed
    /\ btn_cancel
    /\ workers' = IF worker # 0
                    THEN [workers EXCEPT ![worker] = stop(@)]
                    ELSE workers
    /\ btn_cancel' = FALSE
    /\ UNCHANGED <<builder_vars, gm_installed, has_input_files, input_files, output_dir, btn_convert,
                   dialog, worker, queue, crashed>>

\* Lines 372, 373 and 375: the slots of progress_incremented, output_received
\* and current_file change the progress bar, the log browser and the status
\* label only.
DeliverDisplay ==
    /\ Head(queue).kind \in {"progress_incremented", "output_received", "current_file"}
    /\ UNCHANGED <<btn_convert, btn_cancel, dialog, workers>>

\* Variant of conversion_finished that enables the start button only after a
\* success.
conversion_finished_successOnly(success, error_msg) ==
    /\ btn_convert' = success
    /\ btn_cancel' = FALSE
    /\ dialog' = IF success THEN "All conversions completed successfully!"
                 ELSE "Error"

\* conversion_finished, lines 391-402.
conversion_finished(success, error_msg) ==
    /\ btn_convert' = TRUE
    /\ btn_cancel' = FALSE
    /\ dialog' = IF success THEN "All conversions completed successfully!"
                 ELSE "Error"

\* The slots of finished, lines 369-370 and 374: the thread quits, the worker
\* object is deleted (deleteLater) and conversion_finished runs.
DeliverFinished ==
    /\ Head(queue).kind = "finished"
    /\ conversion_finished(Head(queue).ok, Head(queue).msg)
    /\ workers' = [workers EXCEPT ![Head(queue).run] = deleteLater(@)]

\* The GUI event loop takes the oldest queued signal and runs its slot.
Deliver ==
    /\ ~crashed
    /\ queue # <<>>
    /\ queue' = Tail(queue)
    /\ \/ DeliverDisplay
       \/ DeliverFinished
    /\ UNCHANGED <<builder_vars, gm_installed, has_input_files, input_files, output_dir, worker,
                   crashed>>

-----------------------------------------------------------------------------
\* The command builder, build_commands (lines 304-351), on real paths and
\* options.  A path is its parent directory (the components below the root),
\* its stem and its extension; an argument of a command is a token: a literal
\* text, the decimal text of a number, a WIDTHxHEIGHT geometry or a path.

NoPath == [parent |-> <<>>, stem |-> "", ext |-> ""]

Tok(kind, text, n, m, path) ==
    [kind |-> kind, text |-> text, n |-> n, m |-> m, path |-> path]

Lit(text) == Tok("lit", text, 0, 0, NoPath)

\* str(n)
Num(n) == Tok("num", "", n, 0, NoPath)

\* f"{width}x{height}"
Geom(width, height) == Tok("geom", "", width, height, NoPath)

\* str(path)
PathTok(path) == Tok("path", "", 0, 0, path)

\* The files the user can pick: two directories, one stem, two extensions, so
\* that files share a stem or a file name.
InputPaths ==
    {[parent |-> <<d>>, stem |-> "a", ext |-> e] : d \in {"x", "y"}, e \in {"png", "jpg"}}

\* self.output_dir.text(): the directory /out.
OutRoot == <<"out">>

\* The items of format_combo (line 154), of rotate_combo (line 167: the digits
\* and the degree sign) and values of the spin boxes (lines 156, 176-179).
FormatItems == {"jpg", "png", "webp", "tiff", "bmp", "Same as input"}

RotateItems == {[digits |-> d, sign |-> TRUE] : d \in {"0", "90"}}

Qualities == {1, 100}

Widths == {800}

Heights == {600}

Options ==
    [format : FormatItems, quality : Qualities, rotation : RotateItems,
     flip : BOOLEAN, flop : BOOLEAN, resize : BOOLEAN, aspect : BOOLEAN,
     width : Widths, height : Heights, color_profile : BOOLEAN,
     preserve_structure : BOOLEAN]

\* The option widgets as initUI leaves them (lines 138-181).
DefaultOptions ==
    [format |-> "jpg", quality |-> 90, rotation |-> [digits |-> "0", sign |-> TRUE],
     flip |-> FALSE, flop |-> FALSE, resize |-> FALSE, aspect |-> TRUE,
     width |-> 1, height |-> 1, color_profile |-> FALSE,
     preserve_structure |-> FALSE]

\* str.lower() on the items of format_combo
Lower(text) == IF text = "Same as input" THEN "same as input" ELSE text

\* Lines 306-308: "" stands for None.
output_format(o) ==
    IF Lower(o.format) = "same as input" THEN "" ELSE Lower(o.format)

\* rotate_combo.currentText().rstrip(degree sign), line 332
rstrip(item) == item.digits

\* Lines 312-315: the destination directory of an input file.
output_path(f, o) ==
    IF o.preserve_structure THEN OutRoot \o f.parent ELSE OutRoot

\* Lines 319-322: the destination file.
output_file(f, o) ==
    IF output_format(o) # ""
      THEN [parent |-> output_path(f, o), stem |-> f.stem, ext |-> output_format(o)]
      ELSE [parent |-> output_path(f, o), stem |-> f.stem, ext |-> f.ext]

\* Variant of ResizeArgs that adds the filter and the unsharp mask whenever
\* resize is checked.
ResizeArgs_alwaysSharpen(o) ==
    IF o.resize
      THEN <<Lit("-resize"), Geom(o.width, o.height),
             Lit("-filter"), Lit("Lanczos"),
             Lit("-unsharp"), Lit("0.25x0.25+8+0.065")>>
      ELSE <<>>

\* Lines 327-330
ResizeArgs(o) ==
    IF o.resize
      THEN <<Lit("-resize"), Geom(o.width, o.height)>>
           \o (IF o.aspect
                 THEN <<Lit("-filter"), Lit("Lanczos"),
                        Lit("-unsharp"), Lit("0.25x0.25+8+0.065")>>
                 ELSE <<>>)
      ELSE <<>>

\* Lines 332-334
RotateArgs(o) ==
    IF rstrip(o.rotation) # "0" THEN <<Lit("-rotate"), Lit(rstrip(o.rotation))>> ELSE <<>>

\* Lines 336-339
FlipArgs(o) ==
    (IF o.flip THEN <<Lit("-flip")>> ELSE <<>>)
    \o (IF o.flop THEN <<Lit("-flop")>> ELSE <<>>)

\* Variant of QualityArgs that tests only that a format was chosen.
QualityArgs_anyFormat(o) ==
    IF output_format(o) # ""
      THEN <<Lit("-quality"), Num(o.quality)>>
      ELSE <<>>

\* Lines 342-343
QualityArgs(o) ==
    IF output_format(o) \in {"jpg", "webp", "tiff"}
      THEN <<Lit("-quality"), Num(o.quality)>>
      ELSE <<>>

\* Lines 345-346
ProfileArgs(o) ==
    IF o.color_profile THEN <<Lit("-profile"), Lit("RGB.icm")>> ELSE <<>>

\* Variant of cmd with the flip flags before the rotation.
cmd_flipFirst(f, o) ==
    <<Lit("gm"), Lit("convert"), PathTok(f)>>
    \o ResizeArgs(o) \o FlipArgs(o) \o RotateArgs(o) \o QualityArgs(o)
    \o ProfileArgs(o) \o <<PathTok(output_file(f, o))>>

\* Lines 324-348: the argument list of one input file.
cmd(f, o) ==
    <<Lit("gm"), Lit("convert"), PathTok(f)>>
    \o ResizeArgs(o) \o RotateArgs(o) \o FlipArgs(o) \o QualityArgs(o)
    \o ProfileArgs(o) \o <<PathTok(output_file(f, o))>>

\* Path.mkdir(parents=True, exist_ok=True), line 317: the directory and its
\* missing parents.
mkdir(dirs, d) == dirs \cup {SubSeq(d, 1, k) : k \in 1..Len(d)}

\* Variant of append that inserts at the front (commands.insert(0, cmd)).
append_front(commands, c) == <<c>> \o commands

\* Line 349: commands.append(cmd)
append(commands, c) == Append(commands, c)

\* One iteration of the for loop of lines 310-349: the destination directory
\* is created, which the file system may refuse for a directory that does not
\* exist yet (the exception leaves build_commands), and the command appended.
BuildIter ==
    /\ b_pc = "loop"
    /\ Len(b_commands) < Len(b_files)
    /\ LET f == b_files[Len(b_commands) + 1]
           d == output_path(f, b_opts)
       IN  \E mkdir_ok \in BOOLEAN :
             IF mkdir_ok \/ d \in b_dirs
               THEN /\ b_dirs' = mkdir(b_dirs, d)
                    /\ b_commands' = append(b_commands, cmd(f, b_opts))
                    /\ b_pc' = "loop"
               ELSE /\ b_pc' = "raised"
                    /\ UNCHANGED <<b_dirs, b_commands>>
    /\ UNCHANGED <<b_files, b_opts, main_vars>>

\* Line 351: return commands
BuildReturn ==
    /\ b_pc = "loop"
    /\ Len(b_commands) = Len(b_files)
    /\ b_pc' = "returned"
    /\ UNCHANGED <<b_files, b_opts, b_commands, b_dirs, main_vars>>

\* No request is being built.
BuilderIdle ==
    /\ b_files = <<>>
    /\ b_opts = DefaultOptions
    /\ b_pc = "idle"
    /\ b_commands = <<>>
    /\ b_dirs = {}

-----------------------------------------------------------------------------
\* __init__, lines 65-71: initUI (btn_cancel disabled, line 218; progress bar
\* indeterminate, line 202) and the presence check.
\* self.input_files is not assigned by __init__ or initUI.
Init ==
    /\ gm_installed \in BOOLEAN
    /\ has_input_files = FALSE
    /\ input_files = <<>>
    /\ output_dir = ""
    /\ btn_convert = check_gm_installed(gm_installed)
    /\ btn_cancel = FALSE
    /\ dialog = IF gm_installed THEN "none" ELSE "GraphicsMagick (gm) not found!"
    /\ worker = 0
    /\ workers = [r \in Runs |-> NoWorker]
    /\ queue = <<>>
    /\ crashed = FALSE
    /\ BuilderIdle

Next ==
    \/ browse_files
    \/ dropEvent
    \/ clear_files
    \/ browse_output_dir
    \/ start_conversion
    \/ cancel_conversion
    \/ Deliver
    \/ \E r \in Runs : WorkerStep(r)

vars == <<main_vars, builder_vars>>

Spec == Init /\ [][Next]_vars

\* The command builder alone: start_conversion has validated a request of one
\* to MaxPlan distinct files (lines 354-355), the output directory exists, and
\* build_commands runs on it with any setting of the options.
MaxPlan == 2

Requests ==
    {s \in UNION {[1..n -> InputPaths] : n \in 1..MaxPlan} :
        \A i, j \in 1..Len(s) : i # j => s[i] # s[j]}

InitBuilder ==
    /\ gm_installed = TRUE
    /\ has_input_files = TRUE
    /\ b_files \in Requests
    /\ input_files = <<>>
    /\ output_dir = "/out"
    /\ btn_convert = TRUE
    /\ btn_cancel = FALSE
    /\ dialog = "none"
    /\ worker = 0
    /\ workers = [r \in Runs |-> NoWorker]
    /\ queue = <<>>
    /\ crashed = FALSE
    /\ b_opts \in Options
    /\ b_pc = "loop"
    /\ b_commands = <<>>
    /\ b_dirs = {OutRoot}

NextBuilder ==
    \/ BuildIter
    \/ BuildReturn

SpecBuilder == InitBuilder /\ [][NextBuilder]_vars

\* The scheduling the code relies on: a worker thread that can take a step
\* eventually takes it (the external tool eventually returns), and the GUI
\* event loop eventually delivers a queued signal.
Fairness ==
    /\ WF_vars(Deliver)
    /\ \A r \in Runs : WF_vars(WorkerStep(r))

FairSpec == Spec /\ Fairness

-----------------------------------------------------------------------------
\* Observations of a run, from its history

Live(r) == workers[r].pc \notin {"none", "deleted"}

Active(r) == workers[r].pc \notin {"none", "done", "deleted"}

Emitted(w, kind) == {i \in 1..Len(w.emitted) : w.emitted[i].kind = kind}

Progress(w) == Cardinality(Emitted(w, "progress_incremented"))

Logs(w, tag) ==
    Cardinality({i \in Emitted(w, "output_received") : w.emitted[i].tag = tag})

Successes(w) == Cardinality({i \in 1..Len(w.results) : w.results[i].outcome = "ok"})

FirstFailure(w, k) ==
    /\ k \in 1..Len(w.results)
    /\ w.results[k].outcome = "nonzero"
    /\ \A j \in 1..(k - 1) : w.results[j].outcome # "nonzero"

-----------------------------------------------------------------------------
\* C1. Fail-fast: when invocation k is the first to return a non-zero exit
\* status, no invocation after k is ever started, the run never reports
\* success, and the finished event it emits is finished(false, message) with
\* the message naming the destination of item k.
FailFast ==
    \A r \in Runs : \A k \in 1..Len(workers[r].results) :
      LET w == workers[r] IN
        FirstFailure(w, k) =>
          /\ Len(w.started) = k
          /\ \A i \in 1..Len(w.started) : w.started[i].idx <= w.results[k].idx
          /\ w.pc \in {"emit_error", "finally", "done"}
          /\ \A i \in Emitted(w, "finished") :
               w.emitted[i] = EvFinished(r, FALSE, FailedMsg(w.commands[w.results[k].idx]))
          /\ w.pc = "done" => Emitted(w, "finished") # {}

\* A plan of three items whose second item failed has ended.
FailFastWitness ==
    \E r \in Runs :
      /\ Len(workers[r].commands) = 3
      /\ FirstFailure(workers[r], 2)
      /\ workers[r].pc = "done"

\* C2. Strict sequencing: invocations are started in plan order without gaps,
\* at most one is in flight, and when invocation N+1 is started every earlier
\* invocation has returned and its outcome has been handled (its log output
\* and its progress tick have been emitted).
StrictSequencing ==
    \A r \in Runs :
      LET w == workers[r] IN
        /\ \A i \in 1..Len(w.started) : w.started[i].idx = i
        /\ \A i \in 1..Len(w.results) : w.results[i].idx = i
        /\ Len(w.results) <= Len(w.started)
        /\ Len(w.started) <= Len(w.results) + 1
        /\ (w.pc = "running") <=> (Len(w.started) = Len(w.results) + 1)
        /\ \A n \in 1..(Len(w.started) - 1) :
             /\ n <= Len(w.results)
             /\ w.results[n].outcome = "ok"
             /\ Progress(w) >= Len(w.started) - 1
             /\ Logs(w, "stdout") >= Len(w.started) - 1

\* The third invocation of a plan is in flight.
StrictSequencingWitness ==
    \E r \in Runs : workers[r].pc = "running" /\ Len(workers[r].started) = 3

\* C3. Every run emits finished exactly once and nothing after it: at most one
\* finished event is ever emitted, it is the last event and ends the run, a
\* run that has ended has emitted it, and a run that has not ended can always
\* take its next step.
FinishedExactlyOnce ==
    \A r \in Runs :
      LET w == workers[r]
          f == Emitted(w, "finished")
      IN  /\ Cardinality(f) <= 1
          /\ f # {} => (f = {Len(w.emitted)} /\ w.pc = "done")
          /\ w.pc = "done" => Cardinality(f) = 1
          /\ (Active(r) /\ ~crashed) => ENABLED WorkerStep(r)

\* A run that saw the stop flag set has ended.
FinishedExactlyOnceWitness ==
    \E r \in Runs : workers[r].pc = "done" /\ workers[r].cancel_at >= 0

\* C4, as claimed: once the stop flag has been seen set at an iteration
\* boundary the run emits no further event at all.
CancelEmitsNothing ==
    \A r \in Runs :
      workers[r].cancel_at >= 0 => Len(workers[r].emitted) = workers[r].cancel_at

\* C4, amended: once the stop flag has been seen set at an iteration boundary
\* the run starts no further invocation and emits no further current-item,
\* log-output or progress event; it emits exactly one more event, the terminal
\* finished event.
CancelEmitsOnlyFinished ==
    \A r \in Runs :
      LET w == workers[r] IN
        w.cancel_at >= 0 =>
          /\ w.pc \in {"finally", "done"}
          /\ w.pc = "finally" => Len(w.emitted) = w.cancel_at
          /\ w.pc = "done" =>
               /\ Len(w.emitted) = w.cancel_at + 1
               /\ w.emitted[Len(w.emitted)].kind = "finished"
          /\ Len(w.started) = Len(w.results)
          /\ \A i \in 1..Len(w.started) : w.started[i].check < w.checks

\* A run was cancelled after its first item and has ended.
CancelEmitsOnlyFinishedWitness ==
    \E r \in Runs :
      /\ workers[r].cancel_at >= 0
      /\ workers[r].pc = "done"
      /\ Len(workers[r].started) = 1

\* C5, as claimed: finished(success=true) is emitted only by a run all of whose
\* invocations were executed and returned success (as many progress ticks as
\* the plan has items); a cancelled run never surfaces success.
SuccessOnlyWhenCompleted ==
    \A r \in Runs :
      LET w == workers[r] IN
        \A i \in Emitted(w, "finished") :
          w.emitted[i].ok =>
            /\ Progress(w) = Len(w.commands)
            /\ Successes(w) = Len(w.commands)
            /\ w.cancel_at = -1

\* C6. stop() called before the run's first stop-flag check: the run starts no
\* invocation and emits no progress event.
StopBeforeFirstCheck ==
    \A r \in Runs :
      LET w == workers[r] IN
        (w.stop_mark.set /\ w.stop_mark.checks = 0) =>
          /\ w.started = <<>>
          /\ w.results = <<>>
          /\ Progress(w) = 0

\* A run of a plan of three items, stopped before its first check, has ended.
StopBeforeFirstCheckWitness ==
    \E r \in Runs :
      /\ workers[r].stop_mark.set
      /\ workers[r].stop_mark.checks = 0
      /\ Len(workers[r].commands) = 3
      /\ workers[r].pc = "done"

\* C7, as claimed: in every reachable state the number of progress events
\* emitted equals the number of invocations that have returned success.
ProgressEqualsSuccesses ==
    \A r \in Runs : Progress(workers[r]) = Successes(workers[r])

\* C7, amended: the number of progress events equals the number of
\* invocations that have returned success, except while the worker is between
\* a successful return and the emission of that invocation's tick (lines
\* 46-53), where it is exactly one less; a failed or never started invocation
\* contributes no tick and the count never exceeds the plan's length.
ProgressTracksSuccesses ==
    \A r \in Runs :
      LET w == workers[r] IN
        /\ Progress(w) <= Len(w.commands)
        /\ Successes(w) <= Len(w.started)
        /\ IF w.pc \in {"emit_stdout", "emit_progress"}
             THEN Progress(w) = Successes(w) - 1
             ELSE Progress(w) = Successes(w)

\* A run ended with one tick after its second invocation failed.
ProgressTracksSuccessesWitness ==
    \E r \in Runs :
      /\ workers[r].pc = "done"
      /\ Progress(workers[r]) = 1
      /\ Len(workers[r].results) = 2
      /\ workers[r].results[2].outcome = "nonzero"

\* C8. Cancellation latency: after stop() has cleared the flag at most one
\* invocation is started or returns (one and the same invocation), and every
\* invocation that is started passed a stop-flag check made before stop().
CancelLatency ==
    \A r \in Runs :
      LET w == workers[r]
          m == w.stop_mark
          after == {w.started[i].idx : i \in (m.started + 1)..Len(w.started)}
                   \cup {w.results[i].idx : i \in (m.returned + 1)..Len(w.results)}
      IN  m.set =>
            /\ Len(w.started) - m.started <= 1
            /\ Len(w.results) - m.returned <= 1
            /\ Cardinality(after) <= 1
            /\ \A i \in 1..Len(w.started) : w.started[i].check <= m.checks

\* An invocation was started and returned after stop(), and the run has ended
\* with items left.
CancelLatencyWitness ==
    \E r \in Runs :
      LET w == workers[r] IN
        /\ w.stop_mark.set
        /\ Len(w.started) = w.stop_mark.started + 1
        /\ Len(w.results) = w.stop_mark.returned + 1
        /\ w.pc = "done"
        /\ Len(w.started) < Len(w.commands)

\* C9. At most one run is active: while a worker's run has been started and
\* has not ended the start button is disabled, so no two runs are active.
OneActiveRun ==
    /\ \A r \in Runs : Active(r) => ~btn_convert
    /\ Cardinality({r \in Runs : Active(r)}) <= 1

\* A second run is active after its cancel button was clicked.
OneActiveRunWitness ==
    /\ worker = 2
    /\ Active(2)
    /\ workers[2].stop_mark.set

\* C10. When the presence check found the tool unavailable the start button
\* stays disabled: no plan is built, no worker is created, whatever the user
\* does.
ToolMissingDisablesForever ==
    ~gm_installed =>
      /\ ~btn_convert
      /\ ~btn_cancel
      /\ worker = 0
      /\ \A r \in Runs : workers[r].pc = "none"
      /\ queue = <<>>
      /\ ~crashed

\* The tool is missing, files are selected and an output directory is chosen.
ToolMissingDisablesForeverWitness ==
    /\ ~gm_installed
    /\ input_files # <<>>
    /\ output_dir # ""

-----------------------------------------------------------------------------
\* Observations of the command builder

Lossy == {"jpg", "webp", "tiff"}

FlagNames == <<"-resize", "-rotate", "-flip", "-flop", "-quality", "-profile">>

Has(args, text) == \E j \in 1..Len(args) : args[j] = Lit(text)

At(args, text) == {j \in 1..Len(args) : args[j] = Lit(text)}

Last(args) == args[Len(args)]

\* C11. The builder keeps length and order: the plan never has more commands
\* than there are input files, its i-th command has the i-th input file as
\* its source path, and the plan returned has one command per input file.
BuilderKeepsLengthAndOrder ==
    /\ Len(b_commands) <= Len(b_files)
    /\ \A i \in 1..Len(b_commands) : b_commands[i][3] = PathTok(b_files[i])
    /\ b_pc = "returned" => Len(b_commands) = Len(b_files)

\* A plan for two files was returned.
BuilderKeepsLengthAndOrderWitness ==
    /\ b_pc = "returned"
    /\ Len(b_files) = 2
    /\ b_files[1] # b_files[2]

\* C12. For an output format outside the lossy set ("Same as input" included)
\* no command has a quality flag, whatever the quality; for a format inside
\* the set every command has exactly one, followed by the requested value.
QualityOnlyForLossy ==
    \A i \in 1..Len(b_commands) :
      LET a == b_commands[i]
          q == {j \in 1..Len(a) : a[j] = Lit("-quality")}
      IN  /\ b_opts.format \notin Lossy =>
                (q = {} /\ \A j \in 1..Len(a) : a[j].kind # "num")
          /\ b_opts.format \in Lossy =>
                /\ Cardinality(q) = 1
                /\ \A j \in q : j < Len(a) /\ a[j + 1] = Num(b_opts.quality)

\* A plan was returned for format "Same as input" with quality 100.
QualityOnlyForLossyWitness ==
    /\ b_pc = "returned"
    /\ b_opts.format = "Same as input"
    /\ b_opts.quality = 100

\* C13. Every command starts with the tool, the verb and the source path and
\* ends with the destination path; the flags present stand between them in
\* the order resize, rotation, horizontal flip, vertical flip, quality, colour
\* profile; with format "Same as input", rotation 90 and flip the destination
\* keeps the input's extension and "-rotate 90" precedes "-flip", which
\* precedes the destination.
ArgumentOrder ==
    \A i \in 1..Len(b_commands) :
      LET a == b_commands[i]
          f == b_files[i]
      IN  /\ a[1] = Lit("gm")
          /\ a[2] = Lit("convert")
          /\ a[3] = PathTok(f)
          /\ Last(a).kind = "path"
          /\ Last(a).path.stem = f.stem
          /\ \A j \in 4..(Len(a) - 1) : a[j].kind # "path"
          /\ \A p \in 1..Len(FlagNames) : \A q \in (p + 1)..Len(FlagNames) :
               \A j \in At(a, FlagNames[p]) : \A k \in At(a, FlagNames[q]) : j < k
          /\ \A p \in 1..Len(FlagNames) :
               \A j \in At(a, FlagNames[p]) : 3 < j /\ j < Len(a)
          /\ Has(a, "-flip") <=> b_opts.flip
          /\ Has(a, "-flop") <=> b_opts.flop
          /\ Has(a, "-rotate") <=> b_opts.rotation.digits # "0"
          /\ Has(a, "-profile") <=> b_opts.color_profile
          /\ (b_opts.format = "Same as input" /\ b_opts.rotation.digits = "90" /\ b_opts.flip) =>
               /\ Last(a).path.ext = f.ext
               /\ \E j, k \in 1..Len(a) :
                    /\ a[j] = Lit("-rotate")
                    /\ a[j + 1] = Lit("90")
                    /\ a[k] = Lit("-flip")
                    /\ j + 1 < k
                    /\ k < Len(a)

\* A plan was returned for format "Same as input", rotation 90, flip, with
\* every other flag present too.
ArgumentOrderWitness ==
    /\ b_pc = "returned"
    /\ b_opts.format = "Same as input"
    /\ b_opts.rotation.digits = "90"
    /\ b_opts.flip
    /\ b_opts.flop
    /\ b_opts.resize
    /\ b_opts.color_profile

\* C14, as claimed: when build_commands fails because a destination directory
\* cannot be created, the file system is unchanged (no destination directory
\* of an earlier input file has been created) and no run has been started.
NoPartialSideEffects ==
    b_pc = "raised" =>
      /\ b_dirs = {OutRoot}
      /\ worker = 0
      /\ \A r \in Runs : workers[r].pc = "none"

\* C17, as claimed: no command has a resize flag (geometry, filter, unsharp
\* mask) unless both resize and aspect preservation are requested.
ResizeFlagsOnlyWithAspect ==
    \A i \in 1..Len(b_commands) :
      LET a == b_commands[i] IN
        ~(b_opts.resize /\ b_opts.aspect) =>
          /\ ~Has(a, "-resize")
          /\ ~Has(a, "-filter")
          /\ ~Has(a, "-unsharp")
          /\ \A j \in 1..Len(a) : a[j].kind # "geom"

\* C17, amended: the target geometry is emitted whenever resize is requested;
\* the fixed resampling filter and the fixed unsharp mask are emitted only
\* when resize and aspect preservation are both requested; when resize is not
\* requested no command has any resize flag.
ResizeFlags ==
    \A i \in 1..Len(b_commands) :
      LET a == b_commands[i] IN
        /\ Has(a, "-resize") <=> b_opts.resize
        /\ \A j \in 1..Len(a) :
             a[j] = Lit("-resize") => a[j + 1] = Geom(b_opts.width, b_opts.height)
        /\ (\E j \in 1..Len(a) : a[j].kind = "geom") <=> b_opts.resize
        /\ Has(a, "-filter") <=> (b_opts.resize /\ b_opts.aspect)
        /\ Has(a, "-unsharp") <=> (b_opts.resize /\ b_opts.aspect)
        /\ \A j \in 1..Len(a) :
             /\ a[j] = Lit("-filter") => a[j + 1] = Lit("Lanczos")
             /\ a[j] = Lit("-unsharp") => a[j + 1] = Lit("0.25x0.25+8+0.065")

\* A plan was returned with resize requested and aspect preservation not.
ResizeFlagsWitness ==
    /\ b_pc = "returned"
    /\ b_opts.resize
    /\ ~b_opts.aspect

\* C20, as claimed: the commands built from pairwise distinct input files have
\* pairwise distinct destination paths.
DestinationsDistinct ==
    \A i, j \in 1..Len(b_commands) :
      (i # j /\ b_files[i] # b_files[j]) => Last(b_commands[i]) # Last(b_commands[j])

-----------------------------------------------------------------------------
\* C15, as claimed: a start requested while no input file is selected (the
\* list was cleared, or no file was ever added) is rejected with the "no input
\* files" warning; no plan is built, no worker is created and the buttons are
\* left as they were.
NoInputFilesRejected ==
    [][(start_conversion /\ input_files = <<>>) =>
         /\ dialog' = "Please select input files!"
         /\ ~crashed'
         /\ worker' = worker
         /\ workers' = workers
         /\ btn_convert' = btn_convert
         /\ btn_cancel' = btn_cancel]_vars

\* C16, as claimed: every log-output event of an item is emitted only after
\* the item's invocation has returned.
LogsOnlyAfterReturn ==
    \A r \in Runs :
      LET w == workers[r] IN
        \A p \in Emitted(w, "output_received") :
          w.emitted[p].tag # "critical" => w.emitted[p].idx <= Len(w.results)

\* C16, amended: for every item attempted, "current item" is emitted first,
\* then one log-output event announcing the command (line 36), both before
\* the invocation starts; the log-output event carrying the invocation's
\* captured output or error is emitted only after the invocation has returned;
\* then, on success, the progress tick.
EventOrderPerItem ==
    \A r \in Runs :
      LET w == workers[r]
          E == w.emitted
          current == Cardinality(Emitted(w, "current_file"))
      IN  /\ Len(w.started) <= current
          /\ Len(w.started) <= Logs(w, "exec")
          /\ \A p \in 1..Len(E) :
               /\ E[p].kind = "current_file" =>
                    /\ Cardinality({q \in 1..p : E[q].kind = "current_file"})
                         <= Len(w.commands)
                    /\ E[p].path =
                         w.commands[Cardinality({q \in 1..p : E[q].kind = "current_file"})].dst
               /\ (E[p].kind = "output_received" /\ E[p].tag = "exec") =>
                    /\ p > 1
                    /\ E[p - 1].kind = "current_file"
                    /\ E[p].idx = Cardinality({q \in 1..p : E[q].kind = "current_file"})
               /\ (E[p].kind = "output_received" /\ E[p].tag \in {"stdout", "error"}) =>
                    /\ E[p].idx <= Len(w.results)
                    /\ p > 1
                    /\ E[p - 1] = EvOutput(r, "exec", E[p].idx)
               /\ E[p].kind = "progress_incremented" =>
                    /\ p > 1
                    /\ E[p - 1].kind = "output_received"
                    /\ E[p - 1].tag = "stdout"

\* A run has ended after one success and one failure.
EventOrderPerItemWitness ==
    \E r \in Runs :
      /\ workers[r].pc = "done"
      /\ Progress(workers[r]) = 1
      /\ Logs(workers[r], "error") = 1

\* C18. An exception other than a non-zero exit, raised by the creation of
\* the output directory or while an invocation is issued, ends the run as a
\* failure: nothing more is started, a log-output event carrying the error is
\* emitted, and finished(false, message) is emitted with the exception's
\* message, which differs from every invocation-failure message.
InternalErrorFails ==
    \A r \in Runs :
      LET w == workers[r] IN
        w.raised # "" =>
          /\ w.pc \in {"except", "finally", "done"}
          /\ w.raised = "mkdir" => w.started = <<>>
          /\ w.raised = "spawn" => Len(w.started) = Len(w.results)
          /\ w.raised = "invoke" => Len(w.started) = Len(w.results)
          /\ w.pc = "except" => Logs(w, "critical") = 0
          /\ w.pc \in {"finally", "done"} =>
               /\ Logs(w, "critical") = 1
               /\ ~w.success
               /\ w.error_msg = ExceptionMsg
          /\ \A c \in {w.commands[i] : i \in 1..Len(w.commands)} :
               ExceptionMsg # FailedMsg(c)
          /\ \A p \in Emitted(w, "finished") :
               w.emitted[p] = EvFinished(r, FALSE, ExceptionMsg)
          /\ w.pc = "done" => Emitted(w, "finished") # {}

\* A run has ended after its second invocation could not be issued.
InternalErrorFailsWitness ==
    \E r \in Runs :
      /\ workers[r].pc = "done"
      /\ workers[r].raised = "spawn"
      /\ Len(workers[r].started) = 1
      /\ Len(workers[r].commands) = 3

\* C19. Every run that was started leads to the start button being enabled
\* and the cancel button disabled.
RunLeadsToReady ==
    (\E r \in Runs : workers[r].pc = "created") ~> (btn_convert /\ ~btn_cancel)

\* The finished signal of the second run has been delivered.
RunLeadsToReadyWitness ==
    /\ worker = 2
    /\ workers[2].pc = "deleted"
    /\ btn_convert
    /\ ~btn_cancel

====
